---- MODULE Spec2Model ----
(***************************************************************************)
(* Gmail OAuth connection service: the token lifecycle of                  *)
(* POST /api/auth/refresh, the onboarding callback GET /api/auth/callback, *)
(* the Supabase store adapter and the Google provider client.              *)
(*                                                                         *)
(* Time is the JavaScript clock in milliseconds, counted from the start of *)
(* the run.  A refresh token is the positive integer of its grant; an      *)
(* access token is the provider's record of it: its serial number, the     *)
(* grant it was minted under and the expiry it was issued with.            *)
(* Timestamps are integers >= 0.  The JavaScript values null and           *)
(* undefined, an Invalid Date (NaN) and a timestamp text that Date cannot  *)
(* parse are the negative integers below.                                  *)
(***************************************************************************)
EXTENDS Integers, Sequences, FiniteSets, TLC

------------------------------------------------------------------------------
\* Bounds of the model.

\* The clock advances in steps of TickMs, MaxTicks times.
TickMs == 30000
MaxTicks == 1
\* The provider mints at most MaxIssued access tokens in a run.
MaxIssued == 2
\* At most MaxHits calls of POST /api/auth/refresh pass validateApiKey in one
\* window of the rate limiter.
MaxHits == 3
\* At most MaxRevoked refresh tokens are revoked in a run.
MaxRevoked == 1
\* isTokenExpiringSoon is applied to the instants of the minutes 0..MaxProbe.
MaxProbe == 8
\* The limiter on its own: the clock advances MaxLimiterTicks times, and at
\* most MaxOver calls beyond max are made in one window.
MaxLimiterTicks == 2
MaxOver == 1

Families == {"f1"}
\* Connections on which requests arrive; a connection carries one request at a
\* time and is reused once its response is out.
RefreshSlots == {"r1", "r2"}
CallbackSlots == {"k1"}
Clients == {"ip1"}

------------------------------------------------------------------------------
\* JavaScript and SQL values.

Null == -1
Undefined == -2
\* An Invalid Date, whose getTime() is NaN.
NaN == -3
\* A timestamp text that new Date() cannot parse, such as the 'infinity' a
\* TIMESTAMP WITH TIME ZONE column can hold.
Unparseable == -4
\* The string-valued counterparts.
NoStr == "undefined"
NullStr == "null"
\* null and undefined where an access token is expected.
NullToken == [null |-> TRUE]
UndefinedToken == [undefined |-> TRUE]

\* !v of JavaScript, for the values of the model.
Falsy(v) == v \in {Null, Undefined, NaN, 0}
FalsyStr(s) == s \in {NoStr, NullStr, ""}

\* new Date(v): the time value of the Date, NaN for an Invalid Date.
NewDate(v) ==
    IF v >= 0 THEN v
    ELSE IF v = Null THEN 0
    ELSE NaN

Throw == "throw"
\* Date.prototype.toISOString: throws a RangeError on an Invalid Date.
ToISOString(d) == IF d = NaN THEN Throw ELSE "iso"

\* JSON.stringify of a Date in a request body (Date.prototype.toJSON): the ISO
\* text of the instant, null for an Invalid Date.
DateToJSON(d) == IF d = NaN THEN Null ELSE d

------------------------------------------------------------------------------
\* Provider client (services/google.js).

thresholdMinutes == 5

\* A comparison that takes the boundary for expiring.
ExpiringAtBoundary(tokenExpiry, minutes, nowMs) ==
    IF tokenExpiry \in {Null, Undefined} THEN TRUE
    ELSE IF NewDate(tokenExpiry) = NaN THEN FALSE
    ELSE (NewDate(tokenExpiry) - nowMs) <= minutes * 60 * 1000

\* isTokenExpiringSoon(tokenExpiry, thresholdMinutes) evaluated when the clock
\* reads nowMs.  tokenExpiry is what the store returned: a timestamp text
\* (never the number 0, so only null and undefined are falsy) or null.  Any
\* comparison with NaN is false.
isTokenExpiringSoon(tokenExpiry, minutes, nowMs) ==
    IF tokenExpiry \in {Null, Undefined} THEN TRUE
    ELSE LET expiryDate == NewDate(tokenExpiry)
             thresholdMs == minutes * 60 * 1000
         IN  IF expiryDate = NaN THEN FALSE
             ELSE (expiryDate - nowMs) < thresholdMs

\* What an Error's message is, for the errors of the model.
NoError == "none"
\* A catch block that takes every error for a rejected refresh token.
IncludesAnything(error) == TRUE
\* error.message.includes('invalid_grant'): true of the provider's rejection of
\* a refresh token (or of an authorization code); the store's errors (PGRST116
\* "JSON object requested, multiple (or no) rows returned", 23502 "null value
\* in column ... violates not-null constraint", a failed fetch), the
\* RangeError of toISOString and the configuration error do not hold the text.
MessageIncludesInvalidGrant(error) == error = "invalid_grant"

\* An encoding of the state that leaves the family name out.
StringifyWithoutName(obj) ==
    <<"{">>
    \o (IF obj.familyId = NoStr THEN <<>> ELSE <<"familyId", obj.familyId>>)
    \o <<"}">>

\* The state parameter: JSON.stringify drops a key whose value is undefined;
\* the text is a sequence of its tokens.
JSONStringify(obj) ==
    <<"{">>
    \o (IF obj.familyId = NoStr THEN <<>> ELSE <<"familyId", obj.familyId>>)
    \o (IF obj.familyName = NoStr THEN <<>> ELSE <<"familyName", obj.familyName>>)
    \o <<"}">>

\* The value of key in the token sequence of an object text, undefined when
\* the key is absent.
RECURSIVE JSONField(_, _)
JSONField(text, key) ==
    IF Len(text) < 2 THEN NoStr
    ELSE IF Head(text) = key THEN text[2]
    ELSE JSONField(Tail(Tail(text)), key)

Thrown == [threw |-> TRUE]
\* JSON.parse followed by the destructuring { familyId, familyName }: throws on
\* a text that is no JSON (SyntaxError) and on the text null (TypeError).
JSONParse(text) ==
    IF Len(text) >= 2 /\ Head(text) = "{" /\ text[Len(text)] = "}"
    THEN [familyId |-> JSONField(SubSeq(text, 2, Len(text) - 1), "familyId"),
          familyName |-> JSONField(SubSeq(text, 2, Len(text) - 1), "familyName")]
    ELSE Thrown

Base64Encode(text) == <<"base64">> \o text
\* Buffer.from(state, 'base64').toString('utf8') never throws: a state that is
\* no base64 text decodes to bytes that are no JSON.
Base64Decode(state) ==
    IF Len(state) >= 1 /\ Head(state) = "base64" THEN Tail(state)
    ELSE <<"garbage">>

\* The state generateAuthUrl puts in the authorization URL.
EncodeState(familyId, familyName) ==
    Base64Encode(JSONStringify(
        [familyId |-> familyId,
         familyName |-> IF FalsyStr(familyName) THEN "" ELSE familyName]))

\* The callback's decoding of the state parameter.
DecodeState(state) == JSONParse(Base64Decode(state))

------------------------------------------------------------------------------
\* Store adapter (services/supabase.js) over the table family_gmail_tokens.

NoRow == [absent |-> TRUE]

\* A table without its NOT NULL constraints.
NeverViolatesNotNull(accessToken, refreshToken) == FALSE

\* NOT NULL columns of the table: the INSERT of an upsert checks them on the
\* proposed row before the conflict on family_id is resolved, an UPDATE on the
\* new row.  A key whose value is undefined is left out of the request body,
\* so its column takes the default, NULL.
ViolatesNotNull(accessToken, refreshToken) ==
    accessToken \in {NullToken, UndefinedToken} \/ refreshToken \in {Null, Undefined}

\* An ON CONFLICT DO UPDATE that leaves family_name and email as they were.
KeepsOld(old, v) == old

\* The column value an insert stores for a payload value.
InsertStr(v) == IF v = NoStr THEN NullStr ELSE v
\* The column value ON CONFLICT DO UPDATE leaves for a payload value: a column
\* that is not in the body keeps what it held.
UpdateStr(old, v) == IF v = NoStr THEN old ELSE v

\* upsertFamilyTokens(p) at time nowMs: [error, data, store].  fail: the
\* request to the store fails (network, backend) and changes nothing.
upsertFamilyTokens(st, p, nowMs, fail) ==
    LET expiry == DateToJSON(p.tokenExpiry)
        old == st[p.familyId]
        row == IF old = NoRow
               THEN [family_name |-> InsertStr(p.familyName),
                     email |-> InsertStr(p.email),
                     access_token |-> p.accessToken,
                     refresh_token |-> p.refreshToken,
                     token_expiry |-> expiry]
               ELSE [family_name |-> UpdateStr(old.family_name, p.familyName),
                     email |-> UpdateStr(old.email, p.email),
                     access_token |-> p.accessToken,
                     refresh_token |-> p.refreshToken,
                     token_expiry |-> expiry]
    IN  IF fail THEN [error |-> "fetch failed", data |-> NoRow, store |-> st]
        ELSE IF ViolatesNotNull(p.accessToken, p.refreshToken)
        THEN [error |-> "23502", data |-> NoRow, store |-> st]
        ELSE [error |-> NoError, data |-> row,
              store |-> [st EXCEPT ![p.familyId] = row]]

\* A getFamilyTokens that reads every family as one that has a record.
FindsSomeRow(st, familyId, fail) ==
    IF fail THEN [error |-> "fetch failed", data |-> NoRow]
    ELSE [error |-> NoError,
          data |-> [family_name |-> NullStr, email |-> NullStr,
                    access_token |-> [serial |-> 0, grant |-> 0, expiry |-> 0],
                    refresh_token |-> 0, token_expiry |-> 0]]

\* getFamilyTokens(familyId): [error, data]; data is NoRow for null.  PGRST116
\* (no row) is the null, any other error is thrown.
getFamilyTokens(st, familyId, fail) ==
    IF fail THEN [error |-> "fetch failed", data |-> NoRow]
    ELSE [error |-> NoError, data |-> st[familyId]]

\* An UPDATE that leaves token_expiry as it was.
KeepsTokenExpiry(old, accessToken, tokenExpiry, nowMs) ==
    [old EXCEPT !.access_token = accessToken]

\* An UPDATE that never moves token_expiry back.
KeepsLaterExpiry(old, accessToken, tokenExpiry, nowMs) ==
    IF old.token_expiry > DateToJSON(tokenExpiry)
    THEN old
    ELSE [old EXCEPT !.access_token = accessToken,
                     !.token_expiry = DateToJSON(tokenExpiry)]

\* An UPDATE that leaves access_token as it was.
KeepsAccessToken(old, accessToken, tokenExpiry, nowMs) ==
    [old EXCEPT !.token_expiry = DateToJSON(tokenExpiry)]

\* An UPDATE that writes a whole row, with no family_name and no email.
ReplacesRow(old, accessToken, tokenExpiry, nowMs) ==
    [old EXCEPT !.family_name = NullStr, !.email = NullStr,
                !.access_token = accessToken,
                !.token_expiry = DateToJSON(tokenExpiry)]

\* The row an UPDATE of access_token and token_expiry leaves.
UpdatedRow(old, accessToken, tokenExpiry, nowMs) ==
    [old EXCEPT !.access_token = accessToken,
                !.token_expiry = DateToJSON(tokenExpiry)]

\* A write of the refresh that is an upsert: it inserts the row it misses.
UpdateOrInsert(st, familyId, accessToken, tokenExpiry, nowMs, fail) ==
    IF fail THEN [error |-> "fetch failed", data |-> NoRow, store |-> st]
    ELSE LET row == IF st[familyId] = NoRow
                    THEN [family_name |-> NullStr, email |-> NullStr,
                          access_token |-> accessToken,
                          refresh_token |-> accessToken.grant,
                          token_expiry |-> DateToJSON(tokenExpiry)]
                    ELSE UpdatedRow(st[familyId], accessToken, tokenExpiry, nowMs)
         IN  [error |-> NoError, data |-> row,
              store |-> [st EXCEPT ![familyId] = row]]

\* An UPDATE without its filter on family_id.
UpdatesEveryRow(st, familyId, accessToken, tokenExpiry, nowMs, fail) ==
    IF fail THEN [error |-> "fetch failed", data |-> NoRow, store |-> st]
    ELSE IF st[familyId] = NoRow
    THEN [error |-> "PGRST116", data |-> NoRow, store |-> st]
    ELSE [error |-> NoError,
          data |-> UpdatedRow(st[familyId], accessToken, tokenExpiry, nowMs),
          store |-> [g \in DOMAIN st |->
                        IF st[g] = NoRow THEN NoRow
                        ELSE UpdatedRow(st[g], accessToken, tokenExpiry, nowMs)]]

\* updateAccessToken(familyId, accessToken, tokenExpiry) at time nowMs:
\* [error, data, store].  No row with the family_id: .single() reports
\* PGRST116 and the function throws it.
updateAccessToken(st, familyId, accessToken, tokenExpiry, nowMs, fail) ==
    IF fail THEN [error |-> "fetch failed", data |-> NoRow, store |-> st]
    ELSE IF st[familyId] = NoRow
    THEN [error |-> "PGRST116", data |-> NoRow, store |-> st]
    ELSE IF ViolatesNotNull(accessToken, st[familyId].refresh_token)
    THEN [error |-> "23502", data |-> NoRow, store |-> st]
    ELSE LET row == UpdatedRow(st[familyId], accessToken, tokenExpiry, nowMs)
         IN  [error |-> NoError, data |-> row,
              store |-> [st EXCEPT ![familyId] = row]]

------------------------------------------------------------------------------
\* State.

VARIABLES
    now,            \* the clock, in ms
    env,            \* process.env: which settings are configured
    store,          \* family_gmail_tokens: family_id -> row or NoRow
    issued,         \* provider: the number of access tokens minted
    grants,         \* provider: the number of refresh tokens granted
    revoked,        \* provider: the refresh tokens revoked or expired
    limiter,        \* refreshRateLimiter: client -> [hits, resetTime]
    req,            \* POST /api/auth/refresh in flight, per connection
    lastResp,       \* the response the last step sent, NoResp if none
    lastCall,       \* the call of a service the last step completed: the
                    \* function, the connection, the handler's variables
                    \* at the call and the error thrown
    cb,             \* GET /api/auth/callback in flight, per connection
    reauthRequired, \* history: family -> a 401 was answered and no callback
                    \* has stored a record since
    probe,          \* the call and result of a function applied on its own
    refreshes       \* history: family -> the 200 refreshed=true answers sent,
                    \* each with the access token its request had read

vars == <<now, env, store, issued, grants, revoked, limiter, req, lastResp,
          lastCall, cb, reauthRequired, probe, refreshes>>

NoTokens == [absent |-> TRUE]
NoResp == [status |-> 0]
NoProbe == [fn |-> "none"]
NoCall == [fn |-> "none"]
Call(fn, conn, handler, error) ==
    [fn |-> fn, conn |-> conn, handler |-> handler, error |-> error]

\* readAt (history): the time at which tokenData was read.
IdleReq ==
    [pc |-> "idle", family_id |-> NoStr, tokenData |-> NoRow, readAt |-> 0,
     newTokens |-> NoTokens, after401 |-> FALSE]

IdleCb ==
    [pc |-> "idle", familyId |-> NoStr, familyName |-> NoStr, code |-> NoStr,
     tokens |-> NoTokens, email |-> NoStr]

\* process.env with every setting of the service configured.
Configured ==
    [GOOGLE_CLIENT_ID |-> "id", GOOGLE_CLIENT_SECRET |-> "gsecret",
     BASE_URL |-> "https://host", API_SECRET_KEY |-> "secret"]

EmptyStore == [f \in Families |-> NoRow]

Init ==
    /\ now = 0
    /\ env \in {[Configured EXCEPT !.GOOGLE_CLIENT_ID = id, !.API_SECRET_KEY = key] :
                    id \in {NoStr, "id"}, key \in {"", "secret"}}
    /\ store = EmptyStore
    /\ issued = 0
    /\ grants = 0
    /\ revoked = {}
    /\ limiter = [c \in Clients |-> [hits |-> 0, resetTime |-> 0]]
    /\ req = [s \in RefreshSlots |-> IdleReq]
    /\ lastResp = NoResp
    /\ lastCall = NoCall
    /\ cb = [k \in CallbackSlots |-> IdleCb]
    /\ reauthRequired = [f \in Families |-> FALSE]
    /\ probe = NoProbe
    /\ refreshes = [f \in Families |-> {}]

------------------------------------------------------------------------------
\* The provider (Google OAuth), as the client sees it.

\* Lifetimes the provider may give an access token: one shorter than a step
\* of the clock, and one a step of the clock longer than the lookahead
\* threshold.
TTLs == {TickMs \div 2, thresholdMinutes * 60 * 1000 + TickMs}

\* createOAuth2Client: throws without GOOGLE_CLIENT_ID / GOOGLE_CLIENT_SECRET.
createOAuth2Client(e) ==
    IF FalsyStr(e.GOOGLE_CLIENT_ID) \/ FalsyStr(e.GOOGLE_CLIENT_SECRET)
    THEN "config" ELSE NoError

\* The redirect URI of the client, the template text
\* `${process.env.BASE_URL}/api/auth/callback`: an undefined BASE_URL is
\* formatted as the text "undefined".
RedirectUri(e) == <<e.BASE_URL, "/api/auth/callback">>

\* generateAuthUrl(familyId, familyName): [error, url]; the URL is that of the
\* provider's consent screen with the client's id and redirect URI and the
\* encoded state.
generateAuthUrl(e, familyId, familyName) ==
    IF createOAuth2Client(e) # NoError
    THEN [error |-> createOAuth2Client(e), url |-> NoStr]
    ELSE [error |-> NoError,
          url |-> [host |-> "accounts.google.com",
                   client_id |-> e.GOOGLE_CLIENT_ID,
                   redirect_uri |-> RedirectUri(e),
                   state |-> EncodeState(familyId, familyName)]]

\* What the provider may answer to a refresh with refreshToken: invalid_grant
\* once the token is revoked or expired; otherwise new credentials, with or
\* without expires_in; at any time a failure of the call.
RefreshOutcomes(refreshToken) ==
    IF refreshToken \in revoked THEN {"invalid_grant", "error"}
    ELSE (IF issued < MaxIssued THEN {"ok"} ELSE {}) \cup {"no_expires_in", "error"}

\* refreshAccessToken(refreshToken) with the provider answering outcome:
\* [error, credentials, issued].  The log line after the call formats
\* credentials.expiry_date with toISOString, which throws when the answer had
\* no expires_in.
refreshAccessToken(e, refreshToken, outcome, ttl, nowMs) ==
    LET credentials ==
            [access_token |-> [serial |-> issued + 1, grant |-> refreshToken,
                               expiry |-> nowMs + ttl],
             expiry_date |-> nowMs + ttl]
    IN  IF createOAuth2Client(e) # NoError
        THEN [error |-> createOAuth2Client(e), credentials |-> NoTokens, issued |-> issued]
        ELSE IF outcome = "invalid_grant"
        THEN [error |-> "invalid_grant", credentials |-> NoTokens, issued |-> issued]
        ELSE IF outcome = "error"
        THEN [error |-> "provider error", credentials |-> NoTokens, issued |-> issued]
        ELSE IF outcome = "no_expires_in"
        THEN [error |-> IF ToISOString(NewDate(Undefined)) = Throw
                        THEN "RangeError" ELSE NoError,
              credentials |-> NoTokens, issued |-> issued]
        ELSE [error |-> NoError, credentials |-> credentials,
              issued |-> issued + 1]

\* A refresh token is revoked by its user or expires at the provider.
Revoke(g) ==
    /\ g \in 1..grants
    /\ g \notin revoked
    /\ Cardinality(revoked) < MaxRevoked
    /\ revoked' = revoked \cup {g}
    /\ lastResp' = NoResp
    /\ lastCall' = NoCall
    /\ UNCHANGED <<now, env, store, issued, grants, limiter, req, cb,
                   reauthRequired, probe,
                   refreshes>>

Tick ==
    /\ now < MaxTicks * TickMs
    /\ now' = now + TickMs
    /\ lastResp' = NoResp
    /\ lastCall' = NoCall
    /\ UNCHANGED <<env, store, issued, grants, revoked, limiter, req, cb,
                   reauthRequired, probe,
                   refreshes>>

------------------------------------------------------------------------------
\* POST /api/auth/refresh: validateApiKey, refreshRateLimiter, the handler.

ApiKeys == {NoStr, "wrong", "secret"}

\* A middleware that only checks that a key is present.
AcceptsAnyKey(apiKey, expectedApiKey) ==
    IF FalsyStr(expectedApiKey) THEN 500
    ELSE IF FalsyStr(apiKey) THEN 401
    ELSE 0

\* validateApiKey: the status it answers, 0 when it calls next().
validateApiKey(apiKey, expectedApiKey) ==
    IF FalsyStr(expectedApiKey) THEN 500
    ELSE IF FalsyStr(apiKey) THEN 401
    ELSE IF apiKey # expectedApiKey THEN 403
    ELSE 0

\* The error of the body validateApiKey answers with a status.
ApiKeyError(status) ==
    IF status = 500 THEN "Server configuration error"
    ELSE IF status = 401 THEN "Unauthorized"
    ELSE "Forbidden"

windowMs == 60 * 1000
max == 60

\* refreshRateLimiter counts a request of a client: a fixed window of windowMs
\* from the first request counted in it; the request is refused once more than
\* max are counted in the window.
RateLimitHit(l, nowMs) ==
    IF l.hits = 0 \/ nowMs >= l.resetTime
    THEN [hits |-> 1, resetTime |-> nowMs + windowMs]
    ELSE [hits |-> l.hits + 1, resetTime |-> l.resetTime]

\* A response of the route, with the family_id of the request's body when the
\* handler read one: an error status and the error of its body, or 200 with
\* the token.
ErrorResponse(family_id, status, error) ==
    [status |-> status, family_id |-> family_id, error |-> error]

\* The catch block of the handler: the response for a thrown error.
RefreshCatch(family_id, error) ==
    IF MessageIncludesInvalidGrant(error)
    THEN ErrorResponse(family_id, 401, "Token Invalid")
    ELSE ErrorResponse(family_id, 500, "Internal Server Error")

TokenResponse(family_id, accessToken, expiresAt, refreshed) ==
    [status |-> 200, family_id |-> family_id, access_token |-> accessToken,
     expires_at |-> expiresAt, refreshed |-> refreshed]

\* History: a 401 of the handler's catch block marks the family when the
\* refresh token that was rejected is the one its record holds.
Mark401(resp, r) ==
    IF /\ resp # NoResp
       /\ resp.status = 401
       /\ resp.error = "Token Invalid"
       /\ store[r.family_id] # NoRow
       /\ store[r.family_id].refresh_token = r.tokenData.refresh_token
    THEN [reauthRequired EXCEPT ![r.family_id] = TRUE]
    ELSE reauthRequired

\* History: a 200 refreshed=true answer is recorded with the access token the
\* request had read from the record.
Sent200(resp, r) ==
    IF resp.status = 200
    THEN [refreshes EXCEPT ![r.family_id] =
              @ \cup {[read |-> r.tokenData.access_token,
                       access_token |-> resp.access_token,
                       expires_at |-> resp.expires_at]}]
    ELSE refreshes

\* A route whose limiter comes before validateApiKey.
LimiterFirst(keyStatus, l, nowMs) == RateLimitHit(l, nowMs)

\* The middlewares in the order of the route, validateApiKey and then
\* refreshRateLimiter: the limiter's entry of the client after the request, which
\* the limiter counts only when validateApiKey called next().
CountHit(keyStatus, l, nowMs) ==
    IF keyStatus = 0 THEN RateLimitHit(l, nowMs) ELSE l

\* A route without the limiter.
SkipsRateLimit(keyStatus, counted, family_id) ==
    IF keyStatus # 0
    THEN [resp |-> [status |-> keyStatus, family_id |-> NoStr,
                    error |-> ApiKeyError(keyStatus)],
          r |-> IdleReq]
    ELSE IF FalsyStr(family_id)
    THEN [resp |-> [status |-> 400, family_id |-> NoStr, error |-> "Bad Request"],
          r |-> IdleReq]
    ELSE [resp |-> NoResp,
          r |-> [IdleReq EXCEPT !.pc = "getFamilyTokens", !.family_id = family_id,
                                !.after401 = reauthRequired[family_id]]]

\* A request arrives: the middlewares and the handler up to its first await.
\* The outcome is the response sent, or NoResp and the handler's state at the
\* await.
BeginRefresh(keyStatus, counted, family_id) ==
    IF keyStatus # 0
    THEN [resp |-> ErrorResponse(NoStr, keyStatus, ApiKeyError(keyStatus)),
          r |-> IdleReq]
    ELSE IF counted.hits > max
    THEN [resp |-> ErrorResponse(NoStr, 429, "Too many requests"), r |-> IdleReq]
    ELSE IF FalsyStr(family_id)
    THEN [resp |-> ErrorResponse(NoStr, 400, "Bad Request"), r |-> IdleReq]
    ELSE [resp |-> NoResp,
          r |-> [IdleReq EXCEPT !.pc = "getFamilyTokens", !.family_id = family_id,
                                !.after401 = reauthRequired[family_id]]]

RefreshStart(s) ==
    /\ req[s].pc = "idle"
    /\ \E client \in Clients, apiKey \in ApiKeys,
          family_id \in DOMAIN store \cup {NoStr} :
          LET keyStatus == validateApiKey(apiKey, env.API_SECRET_KEY)
              counted == RateLimitHit(limiter[client], now)
              out == BeginRefresh(keyStatus, counted, family_id)
          IN  /\ keyStatus = 0 => counted.hits <= MaxHits
              /\ limiter' = [limiter EXCEPT
                                ![client] = CountHit(keyStatus, limiter[client], now)]
              /\ req' = [req EXCEPT ![s] = out.r]
              /\ lastResp' = out.resp
              /\ lastCall' = Call("validateApiKey", s,
                                  [x_api_key |-> apiKey, family_id |-> family_id,
                                   ip |-> client],
                                  NoError)
    /\ UNCHANGED <<now, env, store, issued, grants, revoked, cb,
                   reauthRequired, probe,
                   refreshes>>

\* A handler that does not refresh for a family while another request is
\* refreshing for it.
SerializesRefreshes(r, got, nowMs) ==
    IF got.error # NoError
    THEN [resp |-> RefreshCatch(r.family_id, got.error), r |-> IdleReq]
    ELSE IF got.data = NoRow
    THEN [resp |-> ErrorResponse(r.family_id, 404, "Not Found"), r |-> IdleReq]
    ELSE IF ~isTokenExpiringSoon(got.data.token_expiry, thresholdMinutes, nowMs)
    THEN [resp |-> TokenResponse(r.family_id, got.data.access_token,
                                 got.data.token_expiry, FALSE),
          r |-> IdleReq]
    ELSE IF \E t \in DOMAIN req :
                /\ req[t].pc \in {"refreshAccessToken", "updateAccessToken"}
                /\ req[t].family_id = r.family_id
    THEN [resp |-> ErrorResponse(r.family_id, 409, "Conflict"), r |-> IdleReq]
    ELSE [resp |-> NoResp,
          r |-> [r EXCEPT !.tokenData = got.data, !.readAt = nowMs,
                          !.pc = "refreshAccessToken"]]

\* A handler that refreshes whatever the stored expiry is.
AlwaysRefreshes(r, got, nowMs) ==
    IF got.error # NoError
    THEN [resp |-> RefreshCatch(r.family_id, got.error), r |-> IdleReq]
    ELSE IF got.data = NoRow
    THEN [resp |-> ErrorResponse(r.family_id, 404, "Not Found"), r |-> IdleReq]
    ELSE [resp |-> NoResp,
          r |-> [r EXCEPT !.tokenData = got.data, !.readAt = nowMs,
                          !.pc = "refreshAccessToken"]]

\* The handler after getFamilyTokens: 404 without a record, the stored token
\* when it is not expiring soon, otherwise the call of refreshAccessToken.
AfterGetFamilyTokens(r, got, nowMs) ==
    IF got.error # NoError
    THEN [resp |-> RefreshCatch(r.family_id, got.error), r |-> IdleReq]
    ELSE IF got.data = NoRow
    THEN [resp |-> ErrorResponse(r.family_id, 404, "Not Found"), r |-> IdleReq]
    ELSE IF ~isTokenExpiringSoon(got.data.token_expiry, thresholdMinutes, nowMs)
    THEN [resp |-> TokenResponse(r.family_id, got.data.access_token,
                                 got.data.token_expiry, FALSE),
          r |-> IdleReq]
    ELSE [resp |-> NoResp,
          r |-> [r EXCEPT !.tokenData = got.data, !.readAt = nowMs,
                          !.pc = "refreshAccessToken"]]

\* The store answers getFamilyTokens.
RefreshGot(s) ==
    /\ req[s].pc = "getFamilyTokens"
    /\ \E fail \in BOOLEAN :
          LET got == getFamilyTokens(store, req[s].family_id, fail)
              out == AfterGetFamilyTokens(req[s], got, now)
          IN  /\ req' = [req EXCEPT ![s] = out.r]
              /\ lastResp' = out.resp
              /\ lastCall' = Call("getFamilyTokens", s, req[s], got.error)
    /\ UNCHANGED <<now, env, store, issued, grants, revoked, limiter, cb,
                   reauthRequired, probe,
                   refreshes>>

\* The handler after refreshAccessToken: the catch block on an error,
\* otherwise the call of updateAccessToken with the new token and expiry.
AfterRefreshAccessToken(r, res) ==
    IF res.error # NoError
    THEN [resp |-> RefreshCatch(r.family_id, res.error), r |-> IdleReq]
    ELSE [resp |-> NoResp,
          r |-> [r EXCEPT !.newTokens = res.credentials, !.pc = "updateAccessToken"]]

\* The provider answers the refresh.
RefreshProvider(s) ==
    /\ req[s].pc = "refreshAccessToken"
    /\ \E outcome \in RefreshOutcomes(req[s].tokenData.refresh_token), ttl \in TTLs :
          LET res == refreshAccessToken(env, req[s].tokenData.refresh_token,
                                        outcome, ttl, now)
              out == AfterRefreshAccessToken(req[s], res)
          IN  /\ issued' = res.issued
              /\ req' = [req EXCEPT ![s] = out.r]
              /\ lastResp' = out.resp
              /\ lastCall' = Call("refreshAccessToken", s, req[s], res.error)
              /\ reauthRequired' = Mark401(out.resp, req[s])
    /\ UNCHANGED <<now, env, store, grants, revoked, limiter, cb, probe,
                   refreshes>>

\* The handler after updateAccessToken: the catch block on an error,
\* otherwise the new token with newExpiry.toISOString().
AfterUpdateAccessToken(r, res) ==
    LET newExpiry == NewDate(r.newTokens.expiry_date)
    IN  IF res.error # NoError
        THEN RefreshCatch(r.family_id, res.error)
        ELSE IF ToISOString(newExpiry) = Throw
        THEN RefreshCatch(r.family_id, "RangeError")
        ELSE TokenResponse(r.family_id, r.newTokens.access_token, newExpiry, TRUE)

\* The store answers updateAccessToken.
RefreshUpdated(s) ==
    /\ req[s].pc = "updateAccessToken"
    /\ \E fail \in BOOLEAN :
          LET res == updateAccessToken(store, req[s].family_id,
                                       req[s].newTokens.access_token,
                                       NewDate(req[s].newTokens.expiry_date),
                                       now, fail)
              resp == AfterUpdateAccessToken(req[s], res)
          IN  /\ store' = res.store
              /\ req' = [req EXCEPT ![s] = IdleReq]
              /\ lastResp' = resp
              /\ lastCall' = Call("updateAccessToken", s, req[s], res.error)
              /\ refreshes' = Sent200(resp, req[s])
    /\ UNCHANGED <<now, env, issued, grants, revoked, limiter, cb,
                   reauthRequired, probe>>

------------------------------------------------------------------------------
\* GET /api/auth/callback.

Names == {NoStr}
Emails == {"a@gmail.com"}
Codes == {NoStr, "good", "bad"}
OAuthErrors == {NoStr, "access_denied"}

\* The state parameters a callback may arrive with: none (the empty text),
\* those generateAuthUrl built, a text that is no base64 of JSON, the JSON
\* null, and an object without familyId.
States ==
    {<<>>, <<"garbage">>, Base64Encode(<<"null">>)}
    \cup {EncodeState(f, n) : f \in Families, n \in Names}
    \cup {Base64Encode(JSONStringify([familyId |-> NoStr, familyName |-> "Smith"]))}

\* What the provider may answer to the exchange of code: a rejected code, or
\* for a good code tokens with or without a refresh token, with or without
\* expires_in, or a failure of the call.
ExchangeOutcomes(code) ==
    IF code # "good" THEN {"invalid_grant"}
    ELSE (IF issued < MaxIssued THEN {"ok", "no_refresh_token"} ELSE {})
         \cup {"no_expires_in", "error"}

\* exchangeCodeForTokens(code) with the provider answering outcome:
\* [error, tokens, issued, grants].  A consent grants a new refresh token;
\* without one the access token is minted under a grant (0) whose refresh
\* token this service was not given.  The log line formats tokens.expiry_date
\* with toISOString, which throws when the answer had no expires_in.
exchangeCodeForTokens(e, code, outcome, ttl, nowMs) ==
    LET fails(error) == [error |-> error, tokens |-> NoTokens,
                         issued |-> issued, grants |-> grants]
        expiry == nowMs + ttl
    IN  IF createOAuth2Client(e) # NoError THEN fails(createOAuth2Client(e))
        ELSE IF outcome = "invalid_grant" THEN fails("invalid_grant")
        ELSE IF outcome = "error" THEN fails("provider error")
        ELSE IF outcome = "no_expires_in"
        THEN fails(IF ToISOString(NewDate(Undefined)) = Throw
                   THEN "RangeError" ELSE NoError)
        ELSE IF outcome = "no_refresh_token"
        THEN [error |-> NoError,
              tokens |-> [access_token |-> [serial |-> issued + 1, grant |-> 0,
                                            expiry |-> expiry],
                          refresh_token |-> Undefined, expiry_date |-> expiry],
              issued |-> issued + 1,
              grants |-> grants]
        ELSE [error |-> NoError,
              tokens |-> [access_token |-> [serial |-> issued + 1,
                                            grant |-> grants + 1,
                                            expiry |-> expiry],
                          refresh_token |-> grants + 1, expiry_date |-> expiry],
              issued |-> issued + 1,
              grants |-> grants + 1]

\* getUserEmail(accessToken): [error, email]; the address is that of the
\* account that consented.
getUserEmail(e, email, fail) ==
    IF createOAuth2Client(e) # NoError
    THEN [error |-> createOAuth2Client(e), email |-> NoStr]
    ELSE IF fail THEN [error |-> "provider error", email |-> NoStr]
    ELSE [error |-> NoError, email |-> email]

\* A redirect of the callback: 302 to the success or the error page.
Redirect(page, message) == [status |-> 302, page |-> page, message |-> message]

\* The callback up to its first await: the checks of error, code and state,
\* the decoding of the state, and the call of exchangeCodeForTokens.  The
\* outcome is the redirect sent, or NoResp and the handler's state at the
\* await.
BeginCallback(oauthError, code, state) ==
    LET stateData == DecodeState(state)
        sends(message) == [resp |-> Redirect("/error.html", message), c |-> IdleCb]
    IN  IF ~FalsyStr(oauthError) THEN sends("Authentication failed")
        ELSE IF FalsyStr(code) THEN sends("Missing authorization code")
        ELSE IF state = <<>> THEN sends("Missing state parameter")
        ELSE IF stateData = Thrown THEN sends("Failed to complete authentication")
        ELSE IF FalsyStr(stateData.familyId) THEN sends("Invalid state parameter")
        ELSE [resp |-> NoResp,
              c |-> [IdleCb EXCEPT !.pc = "exchangeCodeForTokens",
                                   !.familyId = stateData.familyId,
                                   !.familyName = stateData.familyName,
                                   !.code = code]]

CallbackStart(k) ==
    /\ cb[k].pc = "idle"
    /\ \E oauthError \in OAuthErrors, code \in Codes, state \in States :
          LET out == BeginCallback(oauthError, code, state)
          IN  /\ cb' = [cb EXCEPT ![k] = out.c]
              /\ lastResp' = out.resp
    /\ lastCall' = NoCall
    /\ UNCHANGED <<now, env, store, issued, grants, revoked, limiter, req,
                   reauthRequired, probe,
                   refreshes>>

\* A callback that goes on without a refresh token.
GoesOnWithoutRefreshToken(c, res) ==
    IF res.error # NoError
    THEN [resp |-> Redirect("/error.html", "Failed to complete authentication"),
          c |-> IdleCb]
    ELSE [resp |-> NoResp,
          c |-> [c EXCEPT !.tokens = res.tokens, !.code = NoStr,
                          !.pc = "getUserEmail"]]

\* The callback after exchangeCodeForTokens: the error page on a failure and
\* on tokens without refresh_token, otherwise the call of getUserEmail.
AfterExchange(c, res) ==
    IF res.error # NoError
    THEN [resp |-> Redirect("/error.html", "Failed to complete authentication"),
          c |-> IdleCb]
    ELSE IF Falsy(res.tokens.refresh_token)
    THEN [resp |-> Redirect("/error.html", "Failed to get refresh token"),
          c |-> IdleCb]
    ELSE [resp |-> NoResp,
          c |-> [c EXCEPT !.tokens = res.tokens, !.code = NoStr,
                          !.pc = "getUserEmail"]]

\* The provider answers the exchange.
CallbackExchanged(k) ==
    /\ cb[k].pc = "exchangeCodeForTokens"
    /\ \E outcome \in ExchangeOutcomes(cb[k].code), ttl \in TTLs :
          LET res == exchangeCodeForTokens(env, cb[k].code, outcome, ttl, now)
              out == AfterExchange(cb[k], res)
          IN  /\ issued' = res.issued
              /\ grants' = res.grants
              /\ cb' = [cb EXCEPT ![k] = out.c]
              /\ lastResp' = out.resp
              /\ lastCall' = Call("exchangeCodeForTokens", k, cb[k], res.error)
    /\ UNCHANGED <<now, env, store, revoked, limiter, req, reauthRequired, probe,
                   refreshes>>

\* The callback after getUserEmail: the error page on a failure, otherwise
\* the call of upsertFamilyTokens.
AfterGetUserEmail(c, res) ==
    IF res.error # NoError
    THEN [resp |-> Redirect("/error.html", "Failed to complete authentication"),
          c |-> IdleCb]
    ELSE [resp |-> NoResp,
          c |-> [c EXCEPT !.email = res.email, !.pc = "upsertFamilyTokens"]]

\* The provider answers the profile lookup, for a user who consented with one
\* of accounts.
CallbackEmailOf(k, accounts) ==
    /\ cb[k].pc = "getUserEmail"
    /\ \E email \in accounts, fail \in BOOLEAN :
          LET res == getUserEmail(env, email, fail)
              out == AfterGetUserEmail(cb[k], res)
          IN  /\ cb' = [cb EXCEPT ![k] = out.c]
              /\ lastResp' = out.resp
              /\ lastCall' = Call("getUserEmail", k, cb[k], res.error)
    /\ UNCHANGED <<now, env, store, issued, grants, revoked, limiter, req,
                   reauthRequired, probe,
                   refreshes>>

CallbackEmail(k) == CallbackEmailOf(k, Emails)

\* A payload that leaves the email out.
ParamsWithoutEmail(c) ==
    [familyId |-> c.familyId, familyName |-> c.familyName, email |-> NoStr,
     accessToken |-> c.tokens.access_token,
     refreshToken |-> c.tokens.refresh_token,
     tokenExpiry |-> NewDate(c.tokens.expiry_date)]

\* The payload of the callback's upsert.
UpsertParams(c) ==
    [familyId |-> c.familyId, familyName |-> c.familyName, email |-> c.email,
     accessToken |-> c.tokens.access_token,
     refreshToken |-> c.tokens.refresh_token,
     tokenExpiry |-> NewDate(c.tokens.expiry_date)]

\* The callback after upsertFamilyTokens.
AfterUpsert(c, res) ==
    IF res.error # NoError
    THEN Redirect("/error.html", "Failed to complete authentication")
    ELSE Redirect("/success.html", c.email)

\* The store answers upsertFamilyTokens.  History: a stored record ends the
\* family's 401 mark.
CallbackUpserted(k) ==
    /\ cb[k].pc = "upsertFamilyTokens"
    /\ \E fail \in BOOLEAN :
          LET res == upsertFamilyTokens(store, UpsertParams(cb[k]), now, fail)
              stored == res.error = NoError
          IN  /\ store' = res.store
              /\ cb' = [cb EXCEPT ![k] = IdleCb]
              /\ lastResp' = AfterUpsert(cb[k], res)
              /\ lastCall' = Call("upsertFamilyTokens", k, cb[k], res.error)
              /\ reauthRequired' =
                    IF stored THEN [reauthRequired EXCEPT ![cb[k].familyId] = FALSE]
                    ELSE reauthRequired
              /\ req' = [s \in RefreshSlots |->
                            IF stored /\ req[s].family_id = cb[k].familyId
                            THEN [req[s] EXCEPT !.after401 = FALSE] ELSE req[s]]
    /\ UNCHANGED <<now, env, issued, grants, revoked, limiter, probe,
                   refreshes>>

------------------------------------------------------------------------------

Next ==
    \/ Tick
    \/ \E g \in 1..MaxIssued : Revoke(g)
    \/ \E s \in RefreshSlots :
          RefreshStart(s) \/ RefreshGot(s) \/ RefreshProvider(s) \/ RefreshUpdated(s)
    \/ \E k \in CallbackSlots :
          CallbackStart(k) \/ CallbackExchanged(k) \/ CallbackEmail(k)
          \/ CallbackUpserted(k)

Spec == Init /\ [][Next]_vars

------------------------------------------------------------------------------
\* Properties of POST /api/auth/refresh (getValidAccessToken).

\* The step in which the handler on connection conn went on after its call of
\* fn was answered.
Answered(fn, conn) == lastCall'.fn = fn /\ lastCall'.conn = conn

\* C1: when getFamilyTokens finds a record whose token_expiry is at least the
\* lookahead threshold later than the clock, the handler answers 200 with the
\* stored access token and expiry and refreshed=false, ends without calling
\* the provider, and leaves the store as it was; a second call that reads the
\* record next therefore answers the same token.
C1_NotExpiringReturnsStored ==
    [][\A s \in RefreshSlots :
          LET f == req[s].family_id
          IN  (/\ Answered("getFamilyTokens", s)
               /\ lastCall'.error = NoError
               /\ store[f] # NoRow
               /\ store[f].token_expiry - now >= thresholdMinutes * 60 * 1000)
              => /\ lastResp' = TokenResponse(f, store[f].access_token,
                                              store[f].token_expiry, FALSE)
                 /\ req'[s] = IdleReq
                 /\ issued' = issued
                 /\ store' = store]_vars

\* The second of two calls, both counted by the limiter and none in flight,
\* was answered the token of the record with refreshed=false.
C1_Witness ==
    /\ lastResp.status = 200
    /\ lastResp.refreshed = FALSE
    /\ lastCall.fn = "getFamilyTokens"
    /\ lastResp.access_token = store[lastResp.family_id].access_token
    /\ \E c \in Clients : limiter[c].hits >= 2
    /\ \A s \in RefreshSlots : req[s].pc = "idle"

\* C2: every 200 of the route, refreshed or not, carries an expires_at that is
\* at least the lookahead threshold later than the clock.
C2_NeverWithinLookahead ==
    lastResp.status = 200
    => lastResp.expires_at - now >= thresholdMinutes * 60 * 1000

\* A refreshed token was answered that expires within the lookahead threshold.
C2_Witness ==
    /\ lastResp.status = 200
    /\ lastResp.refreshed
    /\ lastCall.error = NoError
    /\ lastResp.expires_at - now < thresholdMinutes * 60 * 1000

\* C3: when updateAccessToken succeeds for a request that read a record whose
\* expiry was in the past, and the record is still the one it read, the
\* handler answers 200 with refreshed=true and an expires_at greater than the
\* old expiry; the record's token_expiry has strictly increased, its
\* access_token has changed and its refresh_token has not.
C3_ForcedRefreshUpdatesRecord ==
    [][\A s \in RefreshSlots :
          LET f == req[s].family_id
              old == req[s].tokenData
          IN  (/\ Answered("updateAccessToken", s)
               /\ lastCall'.error = NoError
               /\ old.token_expiry < req[s].readAt
               /\ store[f] = old)
              => /\ lastResp'.status = 200
                 /\ lastResp'.refreshed
                 /\ lastResp'.family_id = f
                 /\ lastResp'.expires_at > old.token_expiry
                 /\ lastResp'.access_token = store'[f].access_token
                 /\ lastResp'.expires_at = store'[f].token_expiry
                 /\ store'[f].token_expiry > store[f].token_expiry
                 /\ store'[f].access_token # store[f].access_token
                 /\ store'[f].refresh_token = store[f].refresh_token]_vars

\* A request that read an expiry in the past was answered the new token, which
\* the record now holds next to the refresh token the request read.
C3_Witness ==
    /\ lastCall.fn = "updateAccessToken"
    /\ lastCall.error = NoError
    /\ lastCall.handler.tokenData.token_expiry < lastCall.handler.readAt
    /\ lastResp.status = 200
    /\ lastResp.refreshed
    /\ store[lastResp.family_id].access_token = lastResp.access_token
    /\ store[lastResp.family_id].access_token.serial
          = lastCall.handler.tokenData.access_token.serial + 1
    /\ store[lastResp.family_id].refresh_token
          = lastCall.handler.tokenData.refresh_token

\* C4: when getFamilyTokens finds no record of the family, the handler answers
\* 404 Not Found and ends: the provider is not called, the store is not
\* written and the family still has no record.
C4_UnknownFamilyNotFound ==
    [][\A s \in RefreshSlots :
          LET f == req[s].family_id
          IN  (/\ Answered("getFamilyTokens", s)
               /\ lastCall'.error = NoError
               /\ store[f] = NoRow)
              => /\ lastResp' = ErrorResponse(f, 404, "Not Found")
                 /\ req'[s] = IdleReq
                 /\ issued' = issued
                 /\ grants' = grants
                 /\ store' = store
                 /\ store'[f] = NoRow]_vars

C4_Witness ==
    /\ lastResp.status = 404
    /\ lastCall.fn = "getFamilyTokens"
    /\ store[lastResp.family_id] = NoRow
    /\ issued = 0

\* C5: when the provider rejects the refresh token with invalid_grant, the
\* handler answers 401 Token Invalid, which is not the 500 of the other
\* failures, and leaves the store as it was; and no call for the family that
\* arrives after such an answer succeeds before a callback has stored a record
\* of the family.
C5_InvalidGrantIsTerminal ==
    [][\A s \in RefreshSlots :
          LET f == req[s].family_id
          IN  /\ (Answered("refreshAccessToken", s)
                  /\ lastCall'.error = "invalid_grant")
                 => /\ lastResp' = ErrorResponse(f, 401, "Token Invalid")
                    /\ store' = store
              /\ (lastCall'.fn # "none" /\ lastCall'.conn = s /\ req[s].after401)
                 => lastResp'.status # 200]_vars

\* A call that arrived after the family's 401, with no callback in between,
\* was answered 200.
C5_Witness ==
    /\ lastResp.status = 200
    /\ lastCall.fn \in {"getFamilyTokens", "updateAccessToken"}
    /\ lastCall.handler.after401
    /\ reauthRequired[lastResp.family_id]

\* C6: a failure of the handler other than the provider's invalid_grant (a
\* failed read of the store, a provider or configuration error of the
\* refresh, a failed write of the store) is answered 500 Internal Server
\* Error; a 401 of the handler is answered only when refreshAccessToken threw
\* the provider's invalid_grant.
C6_OtherFailuresAreTransient ==
    [][\A s \in RefreshSlots :
          (/\ lastCall'.fn \in {"getFamilyTokens", "refreshAccessToken",
                                "updateAccessToken"}
           /\ lastCall'.conn = s)
          => /\ lastCall'.error \notin {NoError, "invalid_grant"}
                => lastResp' = ErrorResponse(req[s].family_id, 500,
                                             "Internal Server Error")
             /\ lastResp'.status = 401
                => /\ lastCall'.fn = "refreshAccessToken"
                   /\ lastCall'.error = "invalid_grant"
                   /\ req[s].tokenData.refresh_token \in revoked]_vars

\* A failed write of the store after a successful refresh was answered 500.
C6_Witness ==
    /\ lastCall.fn = "updateAccessToken"
    /\ lastCall.error = "fetch failed"
    /\ lastResp.status = 500
    /\ issued >= 2

\* C12: with API_SECRET_KEY configured, a request without x-api-key is
\* answered 401 and one with a wrong x-api-key 403; a request whose key is not
\* the configured one starts no handler (no read of the store, no call of
\* the provider, no write), is not counted by the limiter, and is answered an
\* error body that holds no token.
C12_WrongKeyReachesNothing ==
    [][\A s \in RefreshSlots :
          Answered("validateApiKey", s)
          => LET key == lastCall'.handler.x_api_key
             IN  /\ (env.API_SECRET_KEY # "" /\ key = NoStr)
                    => lastResp' = ErrorResponse(NoStr, 401, "Unauthorized")
                 /\ (env.API_SECRET_KEY # "" /\ key = "wrong")
                    => lastResp' = ErrorResponse(NoStr, 403, "Forbidden")
                 /\ key # env.API_SECRET_KEY
                    => /\ lastResp'.status \in {401, 403, 500}
                       /\ DOMAIN lastResp' = {"status", "family_id", "error"}
                       /\ req'[s] = IdleReq
                       /\ store' = store
                       /\ issued' = issued
                       /\ limiter' = limiter]_vars

\* A request with a wrong key for a family that has a record was answered
\* 403.
C12_Witness ==
    /\ lastCall.fn = "validateApiKey"
    /\ lastCall.handler.x_api_key = "wrong"
    /\ lastCall.handler.family_id \in Families
    /\ store[lastCall.handler.family_id] # NoRow
    /\ lastResp.status = 403

------------------------------------------------------------------------------
\* Properties of GET /api/auth/callback.

\* C10: when the exchange of a code succeeds with tokens that hold no refresh
\* token (an access token is minted, no refresh token is granted), the
\* callback redirects to the error page with "Failed to get refresh token"
\* and ends: no upsert is issued and the store, a record the family already
\* had included, is as it was.
C10_NoRefreshTokenStoresNothing ==
    [][\A k \in CallbackSlots :
          (/\ Answered("exchangeCodeForTokens", k)
           /\ lastCall'.error = NoError
           /\ issued' = issued + 1
           /\ grants' = grants)
          => /\ lastResp' = Redirect("/error.html", "Failed to get refresh token")
             /\ cb'[k] = IdleCb
             /\ store' = store]_vars

\* The callback of a family that has a record was redirected to the error
\* page for want of a refresh token.
C10_Witness ==
    /\ lastResp = Redirect("/error.html", "Failed to get refresh token")
    /\ lastCall.fn = "exchangeCodeForTokens"
    /\ store[lastCall.handler.familyId] # NoRow

\* C11: a step of the callback that redirects to the error page leaves the
\* store as it was; a step of the callback changes the store only when it is
\* the successful upsert, which redirects to the success page and leaves the
\* family a record with the email looked up and the access token, refresh
\* token and expiry of the one exchange of this callback.
C11_NoPartialRecord ==
    [][\A k \in CallbackSlots :
          LET c == cb[k]
              f == c.familyId
          IN  /\ (lastResp'.status = 302 /\ lastResp'.page = "/error.html")
                 => store' = store
              /\ ((cb'[k] # cb[k] \/ lastResp'.status = 302) /\ store' # store)
                 => /\ Answered("upsertFamilyTokens", k)
                    /\ lastCall'.error = NoError
                    /\ lastResp' = Redirect("/success.html", c.email)
                    /\ \A g \in DOMAIN store : g # f => store'[g] = store[g]
                    /\ store'[f] # NoRow
                    /\ store'[f].email = c.email
                    /\ c.email \notin {NoStr, NullStr}
                    /\ store'[f].access_token = c.tokens.access_token
                    /\ store'[f].refresh_token = c.tokens.refresh_token
                    /\ store'[f].refresh_token > 0
                    /\ store'[f].access_token.grant = store'[f].refresh_token
                    /\ store'[f].token_expiry = c.tokens.expiry_date
                    /\ store'[f].token_expiry >= 0]_vars

\* The exchange gave tokens, the lookup of the email failed, the callback
\* redirected to the error page and the family has no record.
C11_Witness ==
    /\ lastCall.fn = "getUserEmail"
    /\ lastCall.error # NoError
    /\ lastCall.handler.tokens # NoTokens
    /\ lastResp.status = 302
    /\ lastResp.page = "/error.html"
    /\ store[lastCall.handler.familyId] = NoRow

------------------------------------------------------------------------------
\* isTokenExpiringSoon, and the handler's use of it on a record it has read,
\* applied on their own to the expiries a record can hold: a timestamp, null
\* (the column is nullable), nothing, and a text that is no date.

ProbeInstants == {i * 60 * 1000 : i \in 0..MaxProbe}
ProbeExpiries == ProbeInstants \cup {Null, Undefined, Unparseable}
ProbeThresholds == {0, 1, thresholdMinutes}
ProbeClocks == {0, 60 * 1000, 3 * 60 * 1000}

ProbeRow(tokenExpiry) ==
    [family_name |-> NullStr, email |-> "a@gmail.com",
     access_token |-> [serial |-> 1, grant |-> 1, expiry |-> 0],
     refresh_token |-> 1, token_expiry |-> tokenExpiry]

InitPure ==
    /\ Init
    /\ env = Configured

ProbeIsTokenExpiringSoon ==
    /\ \E tokenExpiry \in ProbeExpiries, minutes \in ProbeThresholds,
          nowMs \in ProbeClocks :
          probe' = [fn |-> "isTokenExpiringSoon", tokenExpiry |-> tokenExpiry,
                    minutes |-> minutes, nowMs |-> nowMs,
                    result |-> isTokenExpiringSoon(tokenExpiry, minutes, nowMs)]
    /\ UNCHANGED <<now, env, store, issued, grants, revoked, limiter, req,
                   lastResp, lastCall, cb, reauthRequired,
                   refreshes>>

ProbeAfterGetFamilyTokens ==
    /\ \E tokenExpiry \in ProbeExpiries, nowMs \in ProbeClocks, f \in Families :
          LET r == [IdleReq EXCEPT !.pc = "getFamilyTokens", !.family_id = f]
              got == [error |-> NoError, data |-> ProbeRow(tokenExpiry)]
          IN  probe' = [fn |-> "AfterGetFamilyTokens", tokenExpiry |-> tokenExpiry,
                        nowMs |-> nowMs,
                        out |-> AfterGetFamilyTokens(r, got, nowMs)]
    /\ UNCHANGED <<now, env, store, issued, grants, revoked, limiter, req,
                   lastResp, lastCall, cb, reauthRequired,
                   refreshes>>

NextPure == ProbeIsTokenExpiringSoon \/ ProbeAfterGetFamilyTokens

SpecPure == InitPure /\ [][NextPure]_vars

\* C7: for a timestamp, isTokenExpiringSoon is false when the expiry is the
\* clock plus the threshold or later, the boundary included, and true when it
\* is earlier than the clock plus the threshold.
C7_BoundaryIsNotExpiringSoon ==
    (probe.fn = "isTokenExpiringSoon" /\ probe.tokenExpiry >= 0)
    => probe.result
          = (probe.tokenExpiry < probe.nowMs + probe.minutes * 60 * 1000)

\* C7 as stated: false for every expiry later than the clock plus the
\* threshold, true for every expiry at or before it, the boundary included.
C7_BoundaryIsExpiringSoon ==
    (probe.fn = "isTokenExpiringSoon" /\ probe.tokenExpiry >= 0)
    => probe.result
          = (probe.tokenExpiry <= probe.nowMs + probe.minutes * 60 * 1000)

\* The function was applied at the boundary, with a threshold that is not 0,
\* and returned false.
C7_Witness ==
    /\ probe.fn = "isTokenExpiringSoon"
    /\ probe.minutes = thresholdMinutes
    /\ probe.tokenExpiry = probe.nowMs + probe.minutes * 60 * 1000
    /\ probe.result = FALSE

\* C8: for a token_expiry that is null, absent or no usable timestamp,
\* isTokenExpiringSoon is true, and the handler that read the record goes on
\* to refreshAccessToken instead of answering the stored access token.
C8_UnknownExpiryIsExpired ==
    /\ (probe.fn = "isTokenExpiringSoon"
        /\ probe.tokenExpiry \in {Null, Undefined, Unparseable})
       => probe.result
    /\ (probe.fn = "AfterGetFamilyTokens"
        /\ probe.tokenExpiry \in {Null, Undefined, Unparseable})
       => /\ probe.out.resp = NoResp
          /\ probe.out.r.pc = "refreshAccessToken"

\* The handler read a record whose token_expiry is no date and answered the
\* stored access token with refreshed=false.
C8_Witness ==
    /\ probe.fn = "AfterGetFamilyTokens"
    /\ probe.tokenExpiry = Unparseable
    /\ probe.out.resp.status = 200
    /\ probe.out.resp.refreshed = FALSE
    /\ probe.out.resp.access_token = ProbeRow(Unparseable).access_token

------------------------------------------------------------------------------
\* The store adapter applied on its own: upserts and updates with the
\* payloads a caller can pass, a null or missing token included.

StoreAccessTokens ==
    {[serial |-> n, grant |-> 1, expiry |-> 0] : n \in 1..2} \cup {NullToken}
StoreRefreshTokens == {1, 2, Null, Undefined}
StoreNames == {NoStr, "Smith"}
StoreExpiries == {0, NaN}

StoreUpsert ==
    /\ \E familyId \in Families, familyName \in StoreNames,
          accessToken \in StoreAccessTokens, refreshToken \in StoreRefreshTokens,
          tokenExpiry \in StoreExpiries, fail \in BOOLEAN :
          LET p == [familyId |-> familyId, familyName |-> familyName,
                    email |-> "a@gmail.com", accessToken |-> accessToken,
                    refreshToken |-> refreshToken, tokenExpiry |-> tokenExpiry]
              res == upsertFamilyTokens(store, p, now, fail)
          IN  /\ store' = res.store
              /\ probe' = [fn |-> "upsertFamilyTokens", p |-> p, fail |-> fail,
                           error |-> res.error]
    /\ UNCHANGED <<now, env, issued, grants, revoked, limiter, req, lastResp,
                   lastCall, cb, reauthRequired,
                   refreshes>>

StoreUpdate ==
    /\ \E familyId \in Families, accessToken \in StoreAccessTokens,
          tokenExpiry \in StoreExpiries, fail \in BOOLEAN :
          LET res == updateAccessToken(store, familyId, accessToken, tokenExpiry,
                                       now, fail)
          IN  /\ store' = res.store
              /\ probe' = [fn |-> "updateAccessToken", familyId |-> familyId,
                           fail |-> fail, error |-> res.error]
    /\ UNCHANGED <<now, env, issued, grants, revoked, limiter, req, lastResp,
                   lastCall, cb, reauthRequired,
                   refreshes>>

NextStore == StoreUpsert \/ StoreUpdate

SpecStore == InitPure /\ [][NextStore]_vars

\* C9: an upsert whose refresh_token is null or missing leaves the record of a
\* family that has one with the refresh token it held, and no record ever
\* holds a null refresh token.
C9_UpsertKeepsRefreshToken ==
    [][\A f \in Families :
          /\ (/\ store[f] # NoRow
              /\ probe'.fn = "upsertFamilyTokens"
              /\ probe'.p.familyId = f
              /\ probe'.p.refreshToken \in {Null, Undefined})
             => /\ store'[f] # NoRow
                /\ store'[f].refresh_token = store[f].refresh_token
          /\ store'[f] # NoRow
             => store'[f].refresh_token \notin {Null, Undefined}]_vars

\* An upsert without refresh token was refused for a family whose record holds
\* one.
C9_Witness ==
    /\ probe.fn = "upsertFamilyTokens"
    /\ probe.p.refreshToken \in {Null, Undefined}
    /\ probe.fail = FALSE
    /\ probe.p.accessToken # NullToken
    /\ probe.error = "23502"
    /\ store[probe.p.familyId] # NoRow
    /\ store[probe.p.familyId].refresh_token \in {1, 2}
------------------------------------------------------------------------------
\* refreshRateLimiter on its own: calls with a valid key from one client, up
\* to MaxOver beyond max in a window, while the clock advances.  History:
\* probe.admitted counts, per instant of the clock, the calls that passed the
\* limiter; probe.out is what the last call came to.

LimiterInstants == 0..MaxLimiterTicks

InitLimiter ==
    /\ now = 0
    /\ env = Configured
    /\ store = EmptyStore
    /\ issued = 0
    /\ grants = 0
    /\ revoked = {}
    /\ limiter = [c \in Clients |-> [hits |-> 0, resetTime |-> 0]]
    /\ req = [s \in RefreshSlots |-> IdleReq]
    /\ lastResp = NoResp
    /\ lastCall = NoCall
    /\ cb = [k \in CallbackSlots |-> IdleCb]
    /\ reauthRequired = [f \in Families |-> FALSE]
    /\ probe = [fn |-> "refreshRateLimiter",
                admitted |-> [i \in LimiterInstants |-> 0],
                out |-> [resp |-> NoResp, r |-> IdleReq]]
    /\ refreshes = [f \in Families |-> {}]

LimiterHit ==
    /\ \E client \in Clients, family_id \in Families :
          LET counted == RateLimitHit(limiter[client], now)
              out == BeginRefresh(validateApiKey("secret", env.API_SECRET_KEY),
                                  counted, family_id)
              i == now \div TickMs
          IN  /\ counted.hits <= max + MaxOver
              /\ limiter' = [limiter EXCEPT ![client] = counted]
              /\ probe' = [probe EXCEPT
                              !.admitted[i] = IF out.resp = NoResp THEN @ + 1 ELSE @,
                              !.out = out]
    /\ UNCHANGED <<now, env, store, issued, grants, revoked, req, lastResp,
                   lastCall, cb, reauthRequired,
                   refreshes>>

LimiterTick ==
    /\ now < MaxLimiterTicks * TickMs
    /\ now' = now + TickMs
    /\ UNCHANGED <<env, store, issued, grants, revoked, limiter, req, lastResp,
                   lastCall, cb, reauthRequired, probe,
                   refreshes>>

NextLimiter == LimiterHit \/ LimiterTick

SpecLimiter == InitLimiter /\ [][NextLimiter]_vars

\* The calls that passed the limiter at the instants from..to.
RECURSIVE AdmittedIn(_, _)
AdmittedIn(from, to) ==
    IF from > to THEN 0
    ELSE (IF from \in LimiterInstants THEN probe.admitted[from] ELSE 0)
         + AdmittedIn(from + 1, to)

\* The first instant of the clock in the client's current window.
WindowStart(l) ==
    CHOOSE i \in LimiterInstants :
        /\ i * TickMs >= l.resetTime - windowMs
        /\ \A j \in LimiterInstants : j * TickMs >= l.resetTime - windowMs => i <= j

\* C13: within one window of the limiter (windowMs from the client's first
\* call counted in it) at most max calls pass; the call that makes the count
\* exceed max is answered 429 and starts no handler, so it reaches neither
\* the store nor the provider.
C13_FixedWindowOfSixty ==
    \A c \in Clients :
        limiter[c].hits > 0
        => /\ limiter[c].hits > max
              => /\ probe.out.resp = ErrorResponse(NoStr, 429, "Too many requests")
                 /\ probe.out.r = IdleReq
           /\ limiter[c].hits <= max => probe.out.resp = NoResp
           /\ now < limiter[c].resetTime
              => AdmittedIn(WindowStart(limiter[c]), now \div TickMs) <= max

\* C13 as stated: in no interval of 60 seconds, whatever its alignment to the
\* limiter's windows, do more than 60 calls of one client pass.  An interval
\* [t, t + windowMs) holds the instants of the clock from t up to, and not
\* including, t + windowMs.
C13_RollingMinuteOfSixty ==
    \A i \in LimiterInstants :
        AdmittedIn(i, CHOOSE j \in LimiterInstants :
                          /\ j * TickMs < i * TickMs + windowMs
                          /\ \A k \in LimiterInstants :
                                k * TickMs < i * TickMs + windowMs => k <= j)
           <= max

\* The 61st call of a window was answered 429 after 60 had passed.
C13_Witness ==
    /\ \E c \in Clients : limiter[c].hits = max + 1 /\ now < limiter[c].resetTime
    /\ probe.fn = "refreshRateLimiter"
    /\ probe.out.resp.status = 429
    /\ AdmittedIn(0, MaxLimiterTicks) = max

------------------------------------------------------------------------------
\* Overlapping requests of POST /api/auth/refresh over records that callbacks
\* stored before the behaviour begins: each family of RaceFamilies has a record
\* whose access token (serial 0, of the family's own grant) expires within the
\* lookahead threshold.

RaceFamilies == {"f1", "f2"}
RaceGrant(f) == IF f = "f1" THEN 1 ELSE 2

\* The record the callback's upsert stores for family f.
Onboarded(f) ==
    upsertFamilyTokens([g \in RaceFamilies |-> NoRow],
                       [familyId |-> f, familyName |-> NoStr,
                        email |-> "a@gmail.com",
                        accessToken |-> [serial |-> 0, grant |-> RaceGrant(f),
                                         expiry |-> TickMs \div 2],
                        refreshToken |-> RaceGrant(f),
                        tokenExpiry |-> NewDate(TickMs \div 2)],
                       0, FALSE).data

InitRace ==
    /\ now = 0
    /\ env = Configured
    /\ store = [f \in RaceFamilies |-> Onboarded(f)]
    /\ issued = 0
    /\ grants = Cardinality(RaceFamilies)
    /\ revoked = {}
    /\ limiter = [c \in Clients |-> [hits |-> 0, resetTime |-> 0]]
    /\ req = [s \in RefreshSlots |-> IdleReq]
    /\ lastResp = NoResp
    /\ lastCall = NoCall
    /\ cb = [k \in CallbackSlots |-> IdleCb]
    /\ reauthRequired = [f \in RaceFamilies |-> FALSE]
    /\ probe = NoProbe
    /\ refreshes = [f \in RaceFamilies |-> {}]

NextRace ==
    \/ Tick
    \/ \E s \in RefreshSlots :
          RefreshStart(s) \/ RefreshGot(s) \/ RefreshProvider(s) \/ RefreshUpdated(s)

SpecRace == InitRace /\ [][NextRace]_vars

\* C15: refreshes of one family are not mutually excluded.  A request that
\* reads the expiring record another request in flight has read goes on to the
\* provider with the same record; the provider gives it an access token no
\* other request holds; and when its updateAccessToken succeeds after another
\* request that had read the same token was answered, it is answered 200
\* refreshed=true with its own, different access token.
C15_RefreshesNotExcluded ==
    [][\A s \in RefreshSlots :
          LET f == req[s].family_id
          IN  /\ \A t \in RefreshSlots \ {s} :
                    (/\ Answered("getFamilyTokens", s)
                     /\ lastCall'.error = NoError
                     /\ req[t].pc \in {"refreshAccessToken", "updateAccessToken"}
                     /\ req[t].family_id = f
                     /\ req[t].tokenData = store[f]
                     /\ store[f].token_expiry >= 0
                     /\ store[f].token_expiry - now < thresholdMinutes * 60 * 1000)
                    => /\ lastResp' = NoResp
                       /\ req'[s].pc = "refreshAccessToken"
                       /\ req'[s].tokenData = req[t].tokenData
              /\ \A t \in RefreshSlots \ {s} :
                    (/\ Answered("refreshAccessToken", s)
                     /\ lastCall'.error = NoError
                     /\ req[t].pc = "updateAccessToken")
                    => /\ req'[s].pc = "updateAccessToken"
                       /\ req'[s].newTokens.access_token
                             # req[t].newTokens.access_token
              /\ \A a \in (IF f \in DOMAIN refreshes THEN refreshes[f] ELSE {}) :
                    (/\ Answered("updateAccessToken", s)
                     /\ lastCall'.error = NoError
                     /\ a.read = req[s].tokenData.access_token)
                    => /\ lastResp' = TokenResponse(f, req[s].newTokens.access_token,
                                                    req[s].newTokens.expiry_date, TRUE)
                       /\ lastResp'.access_token # a.access_token]_vars

\* Two requests for one family that had read the same access token were both
\* answered 200 refreshed=true, with different access tokens.
C15_Witness ==
    /\ lastCall.fn = "updateAccessToken"
    /\ lastResp.status = 200
    /\ lastResp.refreshed
    /\ \E a, b \in refreshes[lastResp.family_id] :
          /\ a.read = b.read
          /\ a.read = lastCall.handler.tokenData.access_token
          /\ isTokenExpiringSoon(a.read.expiry, thresholdMinutes,
                                 lastCall.handler.readAt)
          /\ a.access_token # b.access_token
          /\ b.access_token = lastResp.access_token

\* C16: the last write wins.  A successful updateAccessToken stores the expiry
\* of its request even when the record holds a later one, so that after it the
\* stored token_expiry is smaller than an expires_at already answered.
C16_LaterWriteClobbers ==
    [][\A s \in RefreshSlots :
          LET f == req[s].family_id
          IN  (/\ Answered("updateAccessToken", s)
               /\ lastCall'.error = NoError
               /\ store[f].token_expiry > req[s].newTokens.expiry_date)
              => /\ store'[f].token_expiry = req[s].newTokens.expiry_date
                 /\ store'[f].token_expiry < store[f].token_expiry
                 /\ lastResp'.status = 200
                 /\ \A a \in refreshes[f] :
                       a.expires_at = store[f].token_expiry
                       => store'[f].token_expiry < a.expires_at]_vars

\* The record's token_expiry is smaller than the expires_at answered to
\* another request that had read the same record.
C16_Witness ==
    /\ lastCall.fn = "updateAccessToken"
    /\ lastCall.error = NoError
    /\ lastResp.status = 200
    /\ store[lastResp.family_id].token_expiry = lastResp.expires_at
    /\ \E a \in refreshes[lastResp.family_id] :
          /\ a.read = lastCall.handler.tokenData.access_token
          /\ a.access_token # lastResp.access_token
          /\ store[lastResp.family_id].token_expiry < a.expires_at

------------------------------------------------------------------------------
\* The table family_gmail_tokens as the rows it holds (probe.rows), under the
\* statements the service sends it: the upsert of the callback, the update of
\* the refresh and the delete of the admin route.  Each statement is atomic
\* at the store; statements of concurrent requests arrive in any order.

MaxRows == 3

TableFamilies == {"f1", "f2"}
TableTokens == {1, 2}
TableEmails == {"a@gmail.com", "b@gmail.com"}

\* An upsert on a table without UNIQUE (family_id): a plain INSERT.
InsertsRow(rows, row) == Append(rows, row)

\* INSERT ... ON CONFLICT (family_id) DO UPDATE under UNIQUE (family_id).
TableUpsert(rows, row) ==
    IF \E i \in DOMAIN rows : rows[i].family_id = row.family_id
    THEN [i \in DOMAIN rows |->
             IF rows[i].family_id = row.family_id THEN row ELSE rows[i]]
    ELSE Append(rows, row)

\* UPDATE ... SET access_token WHERE family_id = familyId.
TableUpdate(rows, familyId, accessToken) ==
    [i \in DOMAIN rows |->
        IF rows[i].family_id = familyId
        THEN [rows[i] EXCEPT !.access_token = accessToken] ELSE rows[i]]

\* DELETE ... WHERE family_id = familyId.
TableDelete(rows, familyId) ==
    SelectSeq(rows, LAMBDA r : r.family_id # familyId)

\* The number of rows of a family.
RowsOf(rows, familyId) ==
    Cardinality({i \in DOMAIN rows : rows[i].family_id = familyId})

InitTable ==
    /\ now = 0
    /\ env = Configured
    /\ store = EmptyStore
    /\ issued = 0
    /\ grants = 0
    /\ revoked = {}
    /\ limiter = [c \in Clients |-> [hits |-> 0, resetTime |-> 0]]
    /\ req = [s \in RefreshSlots |-> IdleReq]
    /\ lastResp = NoResp
    /\ lastCall = NoCall
    /\ cb = [k \in CallbackSlots |-> IdleCb]
    /\ reauthRequired = [f \in Families |-> FALSE]
    /\ refreshes = [f \in Families |-> {}]
    /\ probe = [fn |-> "none", family_id |-> NoStr, matched |-> 0, rows |-> <<>>]

TableStep(fn, familyId, rows) ==
    /\ Len(rows) <= MaxRows
    /\ probe' = [fn |-> fn, family_id |-> familyId,
                 matched |-> RowsOf(probe.rows, familyId), rows |-> rows]
    /\ UNCHANGED <<now, env, store, issued, grants, revoked, limiter, req,
                   lastResp, lastCall, cb, reauthRequired, refreshes>>

TableUpserted ==
    \E f \in TableFamilies, t \in TableTokens, e \in TableEmails :
        TableStep("upsertFamilyTokens", f,
                  TableUpsert(probe.rows,
                              [family_id |-> f, email |-> e, access_token |-> t]))

TableUpdated ==
    \E f \in TableFamilies, t \in TableTokens :
        TableStep("updateAccessToken", f, TableUpdate(probe.rows, f, t))

TableDeleted ==
    \E f \in TableFamilies :
        TableStep("delete", f, TableDelete(probe.rows, f))

NextTable == TableUpserted \/ TableUpdated \/ TableDeleted

SpecTable == InitTable /\ [][NextTable]_vars

\* C17: the table never holds two rows with one family_id, whatever the order
\* in which upserts, updates and deletes reach it.
C17_OneRecordPerFamily ==
    \A f \in TableFamilies : RowsOf(probe.rows, f) <= 1

\* An upsert reached the table when it held a row of the family (that of an
\* earlier or concurrent callback), and the table holds one row of the family
\* next to a row of another family.
C17_Witness ==
    /\ probe.fn = "upsertFamilyTokens"
    /\ probe.matched = 1
    /\ RowsOf(probe.rows, probe.family_id) = 1
    /\ Len(probe.rows) = 2

------------------------------------------------------------------------------
\* Onboarding again: callbacks of users who consent with either of two
\* accounts, next to refresh requests.

OnboardEmails == {"a@gmail.com", "b@gmail.com"}

NextOnboard ==
    \/ \E s \in RefreshSlots :
          RefreshStart(s) \/ RefreshGot(s) \/ RefreshProvider(s) \/ RefreshUpdated(s)
    \/ \E k \in CallbackSlots :
          CallbackStart(k) \/ CallbackExchanged(k)
          \/ CallbackEmailOf(k, OnboardEmails) \/ CallbackUpserted(k)

SpecOnboard == InitPure /\ [][NextOnboard]_vars

\* The callback of connection k stored its record for family f in this step.
Onboards(k, f) ==
    /\ Answered("upsertFamilyTokens", k)
    /\ lastCall'.error = NoError
    /\ cb[k].familyId = f

\* C18: the email of a record follows the onboarding: a callback that stores
\* its record sets the email to the address of the account whose tokens it
\* stores, also when the family has a record with another address; no other
\* step (a refresh, a callback that fails) changes the email of a record.
C18_EmailFollowsOnboarding ==
    [][\A f \in DOMAIN store :
          /\ \A k \in CallbackSlots :
                Onboards(k, f)
                => /\ store'[f].email = cb[k].email
                   /\ store'[f].access_token = cb[k].tokens.access_token
          /\ (store[f] # NoRow /\ ~\E k \in CallbackSlots : Onboards(k, f))
             => /\ store'[f] # NoRow
                /\ store'[f].email = store[f].email]_vars

\* C18 as stated: once a record has an email, no step changes it.
C18_EmailSetOnce ==
    [][\A f \in DOMAIN store :
          (store[f] # NoRow /\ store[f].email # NullStr)
          => store'[f] # NoRow /\ store'[f].email = store[f].email]_vars

\* A callback stored a record with its account's address while a refresh
\* request in flight holds the family's earlier record, with another address.
C18_Witness ==
    /\ lastCall.fn = "upsertFamilyTokens"
    /\ lastCall.error = NoError
    /\ store[lastCall.handler.familyId].email = lastCall.handler.email
    /\ \E s \in RefreshSlots :
          /\ req[s].family_id = lastCall.handler.familyId
          /\ req[s].tokenData # NoRow
          /\ req[s].tokenData.email \in OnboardEmails
          /\ req[s].tokenData.email # store[req[s].family_id].email

------------------------------------------------------------------------------
\* GET /api/auth/start, under every configuration of the provider settings.

StartFamilies == {NoStr, "f1", "f2"}
StartNames == {NoStr, "", "Smith"}

\* The route: the error page without a familyId or when generateAuthUrl
\* throws, otherwise a redirect to the authorization URL.  generated is the
\* outcome of generateAuthUrl, NoCall when it was not called.
StartRoute(e, familyId, familyName) ==
    IF FalsyStr(familyId)
    THEN [generated |-> NoCall,
          resp |-> Redirect("/error.html", "Missing family ID")]
    ELSE LET res == generateAuthUrl(e, familyId, familyName)
         IN  [generated |-> res,
              resp |-> IF res.error # NoError
                       THEN Redirect("/error.html", "Failed to start authentication")
                       ELSE [status |-> 302, location |-> res.url]]

InitStart ==
    /\ now = 0
    /\ env \in [GOOGLE_CLIENT_ID : {NoStr, "", "id"},
                GOOGLE_CLIENT_SECRET : {NoStr, "gsecret"},
                BASE_URL : {NoStr, "", "https://host"},
                API_SECRET_KEY : {"secret"}]
    /\ store = EmptyStore
    /\ issued = 0
    /\ grants = 0
    /\ revoked = {}
    /\ limiter = [c \in Clients |-> [hits |-> 0, resetTime |-> 0]]
    /\ req = [s \in RefreshSlots |-> IdleReq]
    /\ lastResp = NoResp
    /\ lastCall = NoCall
    /\ cb = [k \in CallbackSlots |-> IdleCb]
    /\ reauthRequired = [f \in Families |-> FALSE]
    /\ probe = NoProbe
    /\ refreshes = [f \in Families |-> {}]

Start ==
    /\ \E familyId \in StartFamilies, familyName \in StartNames :
          LET out == StartRoute(env, familyId, familyName)
          IN  probe' = [fn |-> "start", familyId |-> familyId,
                        familyName |-> familyName,
                        generated |-> out.generated, resp |-> out.resp]
    /\ UNCHANGED <<now, env, store, issued, grants, revoked, limiter, req,
                   lastResp, lastCall, cb, reauthRequired, refreshes>>

NextStart == Start

SpecStart == InitStart /\ [][NextStart]_vars

\* C19: with the client id, the client secret or the base URL of the redirect
\* URI not configured, generateAuthUrl fails and GET /api/auth/start answers
\* the error page, never a redirect to an authorization URL.
C19_UnconfiguredNeverRedirects ==
    (/\ probe.fn = "start"
     /\ ~FalsyStr(probe.familyId)
     /\ \/ FalsyStr(env.GOOGLE_CLIENT_ID)
        \/ FalsyStr(env.GOOGLE_CLIENT_SECRET)
        \/ FalsyStr(env.BASE_URL))
    => /\ probe.generated.error # NoError
       /\ probe.resp = Redirect("/error.html", "Failed to start authentication")

\* With the base URL not configured, the user was redirected to an
\* authorization URL whose redirect URI is built from the missing value.
C19_Witness ==
    /\ probe.fn = "start"
    /\ FalsyStr(env.BASE_URL)
    /\ probe.generated # NoCall
    /\ probe.generated.error = NoError
    /\ "location" \in DOMAIN probe.resp
    /\ probe.resp.location.redirect_uri = <<env.BASE_URL, "/api/auth/callback">>

------------------------------------------------------------------------------
\* A provider call that never returns.  Each await of a handler is a pending
\* promise: the handler continues when the call is answered, and the event
\* loop serves the other connections meanwhile.  The store answers every
\* call; the provider answers the calls of every connection but HungSlot,
\* whose refresh it may leave unanswered for ever.

HungSlot == "r1"

SpecHung ==
    /\ InitRace
    /\ [][NextRace]_vars
    /\ \A s \in RefreshSlots :
          WF_vars(RefreshGot(s)) /\ WF_vars(RefreshUpdated(s))
    /\ \A s \in RefreshSlots \ {HungSlot} : WF_vars(RefreshProvider(s))

\* A step of the refresh request of connection s for family f.
StepOf(s, f) ==
    /\ lastCall'.fn \in {"getFamilyTokens", "refreshAccessToken", "updateAccessToken"}
    /\ lastCall'.conn = s
    /\ lastCall'.handler.family_id = f

\* C20: a request whose provider call hangs blocks no other request: every
\* request of another connection, for the same or another family, ends with a
\* response; and a step of a request for family f reads the record of f only
\* and leaves the record of every other family as it is.
C20_HungCallBlocksOnlyItsRequest ==
    /\ \A t \in RefreshSlots \ {HungSlot} :
          (req[t].pc # "idle")
          ~> (/\ req[t].pc = "idle"
              /\ lastCall # NoCall
              /\ lastCall.conn = t
              /\ lastResp # NoResp)
    /\ [][\A s \in RefreshSlots, f \in DOMAIN store :
             StepOf(s, f)
             => /\ \A g \in DOMAIN store \ {f} : store'[g] = store[g]
                /\ req'[s].tokenData \in {NoRow, req[s].tokenData, store[f]}
                /\ (lastResp' # NoResp /\ lastResp'.status = 200)
                   => lastResp'.access_token.grant = store[f].refresh_token]_vars

\* While the request of HungSlot waits for the provider, a request of another
\* connection for the same family was answered its refreshed token, and the
\* record of the other family is the one onboarding stored.
C20_Witness ==
    /\ req[HungSlot].pc = "refreshAccessToken"
    /\ lastCall.fn = "updateAccessToken"
    /\ lastCall.conn # HungSlot
    /\ lastCall.handler.family_id = req[HungSlot].family_id
    /\ lastResp.status = 200
    /\ lastResp.refreshed
    /\ \E g \in DOMAIN store \ {req[HungSlot].family_id} : store[g] = Onboarded(g)

------------------------------------------------------------------------------
\* The life of a record: onboarding callbacks, refresh requests, revocations
\* at the provider, and DELETE /admin/families/:familyId of an administrator
\* whose session requireAuth let through.

\* delete().eq('family_id', familyId): [error, store].  Deleting no row is no
\* error.
deleteFamily(st, familyId, fail) ==
    IF fail THEN [error |-> "fetch failed", store |-> st]
    ELSE [error |-> NoError, store |-> [st EXCEPT ![familyId] = NoRow]]

\* The route after the delete.
AfterDelete(res) ==
    IF res.error # NoError
    THEN [status |-> 500, error |-> "Failed to delete family"]
    ELSE [status |-> 200, success |-> TRUE]

AdminDelete(familyId) ==
    /\ \E fail \in BOOLEAN :
          LET res == deleteFamily(store, familyId, fail)
          IN  /\ store' = res.store
              /\ lastResp' = AfterDelete(res)
              /\ lastCall' = Call("deleteFamily", "admin",
                                  [familyId |-> familyId], res.error)
    /\ UNCHANGED <<now, env, issued, grants, revoked, limiter, req, cb,
                   reauthRequired, probe, refreshes>>

NextLifecycle ==
    \/ \E g \in 1..MaxIssued : Revoke(g)
    \/ \E s \in RefreshSlots :
          RefreshStart(s) \/ RefreshGot(s) \/ RefreshProvider(s) \/ RefreshUpdated(s)
    \/ \E k \in CallbackSlots :
          CallbackStart(k) \/ CallbackExchanged(k) \/ CallbackEmail(k)
          \/ CallbackUpserted(k)
    \/ \E f \in DOMAIN store : AdminDelete(f)

SpecLifecycle == InitPure /\ [][NextLifecycle]_vars

\* C21: a record goes away only by the administrator's delete.  Every other
\* step leaves a family that has a record with one; a step of a refresh
\* request changes at most its access_token and token_expiry; a step of a
\* callback that does not store (the start, the exchange, the profile lookup,
\* a failed upsert) leaves it as it is.
C21_NeverDeletedAutomatically ==
    [][\A f \in DOMAIN store :
          store[f] # NoRow
          => /\ ~(/\ lastCall'.fn = "deleteFamily"
                  /\ lastCall'.handler.familyId = f
                  /\ lastCall'.error = NoError)
                => store'[f] # NoRow
             /\ lastCall'.fn \in {"validateApiKey", "getFamilyTokens",
                                  "refreshAccessToken", "updateAccessToken"}
                => /\ store'[f] # NoRow
                   /\ [store'[f] EXCEPT !.access_token = store[f].access_token,
                                        !.token_expiry = store[f].token_expiry]
                         = store[f]
             /\ (\/ lastCall'.fn \in {"none", "exchangeCodeForTokens", "getUserEmail"}
                 \/ /\ lastCall'.fn = "upsertFamilyTokens"
                    /\ lastCall'.error # NoError)
                => store'[f] = store[f]]_vars

\* The provider rejected the refresh token of a record as invalid, the request
\* was answered 401, and the record is still there with that refresh token.
C21_Witness ==
    /\ lastCall.fn = "refreshAccessToken"
    /\ lastCall.error = "invalid_grant"
    /\ lastResp.status = 401
    /\ store[lastResp.family_id] # NoRow
    /\ store[lastResp.family_id].refresh_token \in revoked

\* C24: a refresh never creates a record.  When the record of the family is
\* gone at the time updateAccessToken reaches the store (an administrator
\* deleted it after the request read it), the update matches no row and
\* throws, the request is answered 500, and the family has no record after.
C24_RefreshNeverCreates ==
    [][\A s \in RefreshSlots :
          LET f == req[s].family_id
          IN  (/\ Answered("updateAccessToken", s)
               /\ store[f] = NoRow)
              => /\ lastCall'.error # NoError
                 /\ lastResp' = ErrorResponse(f, 500, "Internal Server Error")
                 /\ store'[f] = NoRow]_vars

\* A request that had read a record was answered 500 by an update that
\* matched no row, and the family has no record.
C24_Witness ==
    /\ lastCall.fn = "updateAccessToken"
    /\ lastCall.error = "PGRST116"
    /\ lastCall.handler.tokenData # NoRow
    /\ lastCall.handler.newTokens # NoTokens
    /\ lastResp.status = 500
    /\ store[lastCall.handler.family_id] = NoRow

------------------------------------------------------------------------------
\* The state parameter on its own: generateAuthUrl's encoding of a familyId
\* and familyName followed by the callback's decoding, and the callback up to
\* its first await on every kind of state.

StateFamilies == {"f1", "f2", "f3"}
StateNames == {NoStr, "", "Smith", "Jones"}

\* States that generateAuthUrl does not build for a familyId: none (the empty
\* text), a text that is no base64 of JSON, the JSON null, the empty object,
\* objects with a name and no familyId, with a null or an empty familyId.
BadStates ==
    {<<>>, <<"garbage">>, Base64Encode(<<"null">>), Base64Encode(<<"{", "}">>),
     Base64Encode(<<"{", "familyName", "Smith", "}">>),
     Base64Encode(<<"{", "familyId", NullStr, "}">>),
     Base64Encode(<<"{", "familyId", "", "familyName", "Smith", "}">>)}

ProbeStateRoundTrip ==
    /\ \E familyId \in StateFamilies, familyName \in StateNames, code \in Codes,
          oauthError \in OAuthErrors :
          LET state == EncodeState(familyId, familyName)
          IN  probe' = [fn |-> "EncodeState", familyId |-> familyId,
                        familyName |-> familyName, oauthError |-> oauthError,
                        code |-> code,
                        state |-> state, decoded |-> DecodeState(state),
                        out |-> BeginCallback(oauthError, code, state)]
    /\ UNCHANGED <<now, env, store, issued, grants, revoked, limiter, req,
                   lastResp, lastCall, cb, reauthRequired, refreshes>>

ProbeBeginCallback ==
    /\ \E state \in BadStates, code \in Codes, oauthError \in OAuthErrors :
          probe' = [fn |-> "BeginCallback", oauthError |-> oauthError,
                    code |-> code, state |-> state,
                    out |-> BeginCallback(oauthError, code, state)]
    /\ UNCHANGED <<now, env, store, issued, grants, revoked, limiter, req,
                   lastResp, lastCall, cb, reauthRequired, refreshes>>

NextState == ProbeStateRoundTrip \/ ProbeBeginCallback

SpecState == InitPure /\ [][NextState]_vars

\* C22: the state round-trips and is validated.  Decoding the state encoded
\* for a familyId and familyName gives that familyId and that familyName, the
\* empty string for an absent one, and a callback with a code and that state
\* goes on to the exchange for that family; a callback whose state is missing,
\* undecodable or without a familyId redirects to the error page and calls
\* nothing.
C22_StateRoundTripsAndIsValidated ==
    /\ probe.fn = "EncodeState"
       => /\ probe.decoded # Thrown
          /\ probe.decoded.familyId = probe.familyId
          /\ probe.decoded.familyName
                = (IF probe.familyName = NoStr THEN "" ELSE probe.familyName)
          /\ (probe.code # NoStr /\ probe.oauthError = NoStr)
             => /\ probe.out.resp = NoResp
                /\ probe.out.c.pc = "exchangeCodeForTokens"
                /\ probe.out.c.familyId = probe.familyId
                /\ probe.out.c.familyName = probe.decoded.familyName
    /\ probe.fn = "BeginCallback"
       => /\ probe.out.resp.status = 302
          /\ probe.out.resp.page = "/error.html"
          /\ probe.out.c = IdleCb

\* The state of a family with no name was decoded to the family and the empty
\* name, and the callback went on to the exchange.
C22_Witness ==
    /\ probe.fn = "EncodeState"
    /\ probe.familyName = NoStr
    /\ probe.decoded.familyName = ""
    /\ probe.decoded.familyId = probe.familyId
    /\ probe.out.c.pc = "exchangeCodeForTokens"

------------------------------------------------------------------------------
\* The admin sessions (routes/admin.js): the Map sessions, login, logout and
\* requireAuth, while the clock advances by half the lifetime of a session.
\* Session tokens are numbered in the order generateSessionToken made them.
\* History: probe.created is the time of every login that succeeded and
\* probe.loggedOut the tokens of those logins that a logout was sent with.

MaxSessions == 2
MaxSessionTicks == 3

ADMIN_USERNAME == "admin"
ADMIN_PASSWORD == "admin123"
sessionMaxAgeMs == 24 * 60 * 60 * 1000

SessionTokens == 1..MaxSessions
\* No token: the header and the query parameter are absent.
NoSessionToken == 0
Usernames == {"admin", "eve"}
Passwords == {"admin123", "guess"}

\* sessions.delete(token).
SessionsDelete(sessions, token) ==
    [t \in DOMAIN sessions \ {token} |-> sessions[t]]

\* A middleware that never looks at the age of a session.
IgnoresSessionAge(sessions, sessionToken, nowMs) ==
    IF sessionToken = NoSessionToken \/ sessionToken \notin DOMAIN sessions
    THEN [status |-> 401, error |-> "Unauthorized", sessions |-> sessions]
    ELSE [status |-> 0, error |-> NoError, sessions |-> sessions]

\* requireAuth: [status, error, sessions]; status 0 when it calls next().
requireAuth(sessions, sessionToken, nowMs) ==
    IF sessionToken = NoSessionToken \/ sessionToken \notin DOMAIN sessions
    THEN [status |-> 401, error |-> "Unauthorized", sessions |-> sessions]
    ELSE IF nowMs - sessions[sessionToken].createdAt > sessionMaxAgeMs
    THEN [status |-> 401, error |-> "Session expired",
          sessions |-> SessionsDelete(sessions, sessionToken)]
    ELSE [status |-> 0, error |-> NoError, sessions |-> sessions]

\* POST /admin/login: [status, token, sessions].
login(sessions, username, password, token, nowMs) ==
    IF username = ADMIN_USERNAME /\ password = ADMIN_PASSWORD
    THEN [status |-> 200, token |-> token,
          sessions |-> (token :> [username |-> username, createdAt |-> nowMs])
                       @@ sessions]
    ELSE [status |-> 401, token |-> NoSessionToken, sessions |-> sessions]

\* POST /admin/logout with the header x-session-token.
logout(sessions, sessionToken) ==
    IF sessionToken # NoSessionToken
    THEN SessionsDelete(sessions, sessionToken) ELSE sessions

InitSessions ==
    /\ now = 0
    /\ env = Configured
    /\ store = EmptyStore
    /\ issued = 0
    /\ grants = 0
    /\ revoked = {}
    /\ limiter = [c \in Clients |-> [hits |-> 0, resetTime |-> 0]]
    /\ req = [s \in RefreshSlots |-> IdleReq]
    /\ lastResp = NoResp
    /\ lastCall = NoCall
    /\ cb = [k \in CallbackSlots |-> IdleCb]
    /\ reauthRequired = [f \in Families |-> FALSE]
    /\ refreshes = [f \in Families |-> {}]
    /\ probe = [fn |-> "none", sessionToken |-> NoSessionToken, status |-> 0,
                sessions |-> <<>>, created |-> <<>>, loggedOut |-> {}]

SessionFrame ==
    UNCHANGED <<env, store, issued, grants, revoked, limiter, req, lastResp,
                lastCall, cb, reauthRequired, refreshes>>

SessionLogin ==
    /\ \E username \in Usernames, password \in Passwords :
          LET token == Len(probe.created) + 1
              res == login(probe.sessions, username, password, token, now)
          IN  /\ res.status = 200 => token <= MaxSessions
              /\ probe' = [probe EXCEPT
                              !.fn = "login", !.sessionToken = res.token,
                              !.status = res.status, !.sessions = res.sessions,
                              !.created = IF res.status = 200
                                          THEN Append(@, now) ELSE @]
    /\ now' = now
    /\ SessionFrame

SessionLogout ==
    /\ \E sessionToken \in SessionTokens \cup {NoSessionToken} :
          probe' = [probe EXCEPT
                       !.fn = "logout", !.sessionToken = sessionToken,
                       !.status = 200,
                       !.sessions = logout(probe.sessions, sessionToken),
                       !.loggedOut = IF sessionToken \in DOMAIN probe.created
                                     THEN @ \cup {sessionToken} ELSE @]
    /\ now' = now
    /\ SessionFrame

SessionRequest ==
    /\ \E sessionToken \in SessionTokens \cup {NoSessionToken} :
          LET res == requireAuth(probe.sessions, sessionToken, now)
          IN  probe' = [probe EXCEPT
                           !.fn = "requireAuth", !.sessionToken = sessionToken,
                           !.status = res.status, !.sessions = res.sessions]
    /\ now' = now
    /\ SessionFrame

SessionTick ==
    /\ now < MaxSessionTicks * (sessionMaxAgeMs \div 2)
    /\ now' = now + sessionMaxAgeMs \div 2
    /\ probe' = [probe EXCEPT !.fn = "none", !.sessionToken = NoSessionToken,
                              !.status = 0]
    /\ SessionFrame

NextSessions == SessionLogin \/ SessionLogout \/ SessionRequest \/ SessionTick

SpecSessions == InitSessions /\ [][NextSessions]_vars

\* C23: requireAuth lets a request through exactly when its token is that of a
\* login that succeeded, no logout was sent with it, and the login is at most
\* 24 hours old; a login that fails leaves the sessions as they are; after a
\* logout the token is in no session; a token presented more than 24 hours
\* after its login is rejected and removed from the sessions.
C23_SessionLifecycle ==
    [][/\ probe'.fn = "requireAuth"
          => LET t == probe'.sessionToken
             IN  /\ probe'.status = 0
                    <=> /\ t \in DOMAIN probe.created
                        /\ t \notin probe.loggedOut
                        /\ now - probe.created[t] <= 24 * 60 * 60 * 1000
                 /\ probe'.status \in {0, 401}
                 /\ (t \in DOMAIN probe.created
                     /\ now - probe.created[t] > 24 * 60 * 60 * 1000)
                    => t \notin DOMAIN probe'.sessions
       /\ (probe'.fn = "login" /\ probe'.status # 200)
          => /\ probe'.status = 401
             /\ probe'.sessions = probe.sessions
       /\ (probe'.fn = "login" /\ probe'.status = 200)
          => /\ probe'.sessionToken \notin DOMAIN probe.created
             /\ probe'.sessions[probe'.sessionToken].createdAt = now
       /\ \A t \in probe'.loggedOut : t \notin DOMAIN probe'.sessions
      ]_vars

\* The token of a login was presented more than 24 hours after the login, with
\* no logout sent: it was rejected and is in no session.
C23_Witness ==
    /\ probe.fn = "requireAuth"
    /\ probe.sessionToken \in DOMAIN probe.created
    /\ probe.sessionToken \notin probe.loggedOut
    /\ now - probe.created[probe.sessionToken] > sessionMaxAgeMs
    /\ probe.status = 401
    /\ probe.sessionToken \notin DOMAIN probe.sessions

------------------------------------------------------------------------------
\* The middlewares of POST /api/auth/refresh on their own: calls with a
\* missing, a wrong and the right key from one client within one window of the
\* limiter, up to MaxOver beyond max of each kind.  History: probe.bad and
\* probe.valid count the calls without and with the right key.

InitKeyed ==
    /\ now = 0
    /\ env \in {[Configured EXCEPT !.API_SECRET_KEY = key] : key \in {"", "secret"}}
    /\ store = EmptyStore
    /\ issued = 0
    /\ grants = 0
    /\ revoked = {}
    /\ limiter = [c \in Clients |-> [hits |-> 0, resetTime |-> 0]]
    /\ req = [s \in RefreshSlots |-> IdleReq]
    /\ lastResp = NoResp
    /\ lastCall = NoCall
    /\ cb = [k \in CallbackSlots |-> IdleCb]
    /\ reauthRequired = [f \in Families |-> FALSE]
    /\ refreshes = [f \in Families |-> {}]
    /\ probe = [fn |-> "none", x_api_key |-> NoStr, bad |-> 0, valid |-> 0,
                out |-> [resp |-> NoResp, r |-> IdleReq]]

KeyedHit ==
    /\ \E client \in Clients, apiKey \in ApiKeys, family_id \in Families :
          LET keyStatus == validateApiKey(apiKey, env.API_SECRET_KEY)
              entry == CountHit(keyStatus, limiter[client], now)
              out == BeginRefresh(keyStatus, entry, family_id)
          IN  /\ IF keyStatus = 0 THEN probe.valid <= max + MaxOver
                                  ELSE probe.bad <= max + MaxOver
              /\ limiter' = [limiter EXCEPT ![client] = entry]
              /\ probe' = [fn |-> "refresh", x_api_key |-> apiKey,
                           bad |-> probe.bad + (IF keyStatus = 0 THEN 0 ELSE 1),
                           valid |-> probe.valid + (IF keyStatus = 0 THEN 1 ELSE 0),
                           out |-> out]
    /\ UNCHANGED <<now, env, store, issued, grants, revoked, req, lastResp,
                   lastCall, cb, reauthRequired, refreshes>>

NextKeyed == KeyedHit

SpecKeyed == InitKeyed /\ [][NextKeyed]_vars

\* C25: calls that validateApiKey rejects (401 without a key, 403 with a wrong
\* one, 500 when the server has no API_SECRET_KEY) are not counted by the
\* limiter, and a call with the right key is answered 429 exactly when max
\* calls with the right key came before it in the window, however many calls
\* were rejected for their key.
C25_BadKeysNotCounted ==
    [][\A c \in Clients :
          IF probe'.x_api_key = env.API_SECRET_KEY /\ env.API_SECRET_KEY # ""
          THEN /\ limiter'[c].hits = probe.valid + 1
               /\ probe'.out.resp = ErrorResponse(NoStr, 429, "Too many requests")
                  <=> probe.valid >= 60
               /\ probe.valid < 60 => probe'.out.resp = NoResp
          ELSE /\ limiter'[c] = limiter[c]
               /\ probe'.out.resp.status \in {401, 403, 500}
               /\ probe'.out.r = IdleReq]_vars

\* After more than max calls rejected for their key, the max-th call with the
\* right key passed the limiter.
C25_Witness ==
    /\ probe.fn = "refresh"
    /\ probe.x_api_key = env.API_SECRET_KEY
    /\ probe.bad > max
    /\ probe.valid = max
    /\ limiter["ip1"].hits = max
    /\ probe.out.resp = NoResp
    /\ probe.out.r.pc = "getFamilyTokens"

------------------------------------------------------------------------------
\* Consenting again: onboarding callbacks next to refresh requests, for
\* families that have a record (InitRace).

SpecReconsent == InitRace /\ [][NextOnboard]_vars

\* C26: in every record the access token was issued under the grant of the
\* refresh token the record holds.
C26_AccessTokenOfStoredGrant ==
    \A f \in DOMAIN store :
        store[f] # NoRow => store[f].access_token.grant = store[f].refresh_token

\* The update of a refresh request stored an access token it got for the
\* refresh token it had read, in a record that holds the refresh token of a
\* later consent.
C26_Witness ==
    /\ lastCall.fn = "updateAccessToken"
    /\ lastCall.error = NoError
    /\ lastResp.status = 200
    /\ store[lastResp.family_id].access_token = lastResp.access_token
    /\ lastResp.access_token.grant = lastCall.handler.tokenData.refresh_token
    /\ store[lastResp.family_id].refresh_token
          # lastCall.handler.tokenData.refresh_token

====
